---- MODULE Spec2Model ----
(***************************************************************************)
(* A model of the two simulators of go-raylib-water:                       *)
(*   cmd/sph/main.go      the SPH particle simulator (SPHSim, Grid)        *)
(*   cmd/gridSim/main.go  the cellular-automaton water simulator (Game)    *)
(*                                                                         *)
(* Go's float32/float64 values are modelled as fixed-point integers; every *)
(* rounding of the floating-point unit is modelled as truncation toward    *)
(* zero at the fixed-point resolution (operator Div).  The units are:      *)
(*   position, distance   1/1000 px            (Milli)                     *)
(*   velocity             1/1000 px/s          (Milli)                     *)
(*   acceleration         1/100  px/s^2                                    *)
(*   poly6, density       1/10^8                                           *)
(*   pressure             1/1000                                           *)
(*   volume (gridSim)     1/100000             (VolOne is 1.0)             *)
(* Pi is taken as 355/113.  Intermediate products are staged so that they  *)
(* stay below 2^31 in absolute value.                                      *)
(***************************************************************************)
EXTENDS Integers, Sequences, FiniteSets, TLC

VARIABLES
    particles,   \* SPHSim.particles: index -> [px, py, vx, vy, density, pressure]
    cells,       \* SPHSim.grid.cells: cell key <<cx, cy>> -> sequence of indices
    pc,          \* the statement of NewSPHSim / Step() that runs next
    idx,         \* the loop variable i of the running pass (x in NewSPHSim)
    row,         \* the loop variable y of NewSPHSim
    steps,       \* number of completed Step() calls
    limit,       \* number of Step() calls the caller makes in this run
    velPre,      \* history: the velocities when the running computeForces began
    seen,        \* history: seen[i][j] is the pj.vel that particle i's pass read
    last,        \* history: the last integrate() loop iteration
    State,       \* Game.State of gridSim: <<y, x>> -> [volume, isObstacle, pressure]
    frameCount   \* frameCount of gridSim's main loop

sphVars == <<particles, cells, pc, idx, row, steps, limit, velPre, seen, last>>
waterVars == <<State, frameCount>>
vars == <<particles, cells, pc, idx, row, steps, limit, velPre, seen, last, State, frameCount>>

(***************************************************************************)
(* Configurable parameters of cmd/sph/main.go                              *)
(***************************************************************************)
particleCount == 1000
restDensity == 1000
gasConstant == 50
viscosity == 250
h == 16
mass == 200
timeStepNum == 3          \* timeStep = 0.0015 = 3/2000 seconds
timeStepDen == 2000
gravity == 3000
windowWidth == 800
windowHeight == 400
margin == 5
speedCap == 1000
dragNum == 995            \* drag = 0.995 = 995/1000
spacing == 10
originX == 200
originY == 50

\* Fixed-point resolution of positions and velocities (units per px, per px/s).
Milli == 1000

(***************************************************************************)
(* Bounds of the model                                                     *)
(***************************************************************************)
MaxParticles == 5         \* particle count of the simulations that are stepped
MaxSteps == 90            \* Step() calls per run from NewSPHSim
GridParticles == 3        \* particles of the runs that exercise the grid
AnyParticles == 2         \* particles of the runs from arbitrary states
MaxAnySteps == 2          \* Step() calls per run from an arbitrary state

(***************************************************************************)
(* Arithmetic                                                              *)
(***************************************************************************)
\* Division rounding toward zero, as Go's int() conversion and as the model of
\* a floating-point rounding.  b > 0.
Div(a, b) == IF a >= 0 THEN a \div b ELSE -((-a) \div b)

Abs(a) == IF a >= 0 THEN a ELSE -a

RECURSIVE SqrtSearch(_, _, _)
SqrtSearch(n, lo, hi) ==
    IF lo >= hi THEN lo
    ELSE LET mid == (lo + hi + 1) \div 2
         IN  IF mid * mid <= n THEN SqrtSearch(n, mid, hi)
                               ELSE SqrtSearch(n, lo, mid - 1)

\* math.Sqrt followed by truncation: the largest s with s*s <= n.
ISqrt(n) == SqrtSearch(n, 0, 46340)

\* rl.Vector2Length of the vector (x, y).
Vector2Length(x, y) == ISqrt(x * x + y * y)

(***************************************************************************)
(* Kernel functions.  r is a distance in 1/1000 px.                        *)
(***************************************************************************)
hMilli == h * Milli

\* 315/(64*Pi*h^9) * h^6 = poly6(0, h), in 1/10^8:
\* 315*113/(64*355) = 1.5666 (in 1/10^4), divided by h^3.
Poly6AtZero == (((315 * 113 * 10000) \div (64 * 355)) * 10000) \div (h * h * h)

\* poly6(r, h) in 1/10^8: Poly6AtZero * ((h*h - r*r)/(h*h))^3, the ratio in 1/1000.
poly6(r) ==
    IF r >= 0 /\ r <= hMilli
    THEN LET u == (hMilli * hMilli - r * r) \div ((hMilli * hMilli) \div 1000)
         IN  (((u * u * u) \div 100000) * Poly6AtZero) \div 10000
    ELSE 0

\* 45/(Pi*h^6) in 1/10^10 (45*113/355 = 14.3239, divided by 16^6 = 16777216).
KernelCoef == 8538

\* spikyGrad(rij, r, h) in 1/10^9: rij scaled by m/r with
\* m = -45/(Pi*h^6) * (h-r)^2; rij/r is formed first (in 1/1000).
spikyGrad(rx, ry, r) ==
    IF r > 0 /\ r <= hMilli
    THEN LET m == -(((((hMilli - r) * (hMilli - r)) \div 10000) * KernelCoef) \div 1000)
         IN  <<Div(Div(rx * 1000, r) * m, 1000), Div(Div(ry * 1000, r) * m, 1000)>>
    ELSE <<0, 0>>

\* viscLaplacian(r, h) in 1/10^10.
viscLaplacian(r) ==
    IF r >= 0 /\ r <= hMilli
    THEN ((hMilli - r) * KernelCoef) \div 1000
    ELSE 0

(***************************************************************************)
(* Grid                                                                    *)
(***************************************************************************)
cellSize == h

\* The key of Insert and Nearby: int(p.pos.X / g.cellSize), int(p.pos.Y / g.cellSize).
CellKey(p) == <<Div(p.px, cellSize * Milli), Div(p.py, cellSize * Milli)>>

\* g.cells[k]: a missing key reads as the empty slice.
CellAt(cs, k) == IF k \in DOMAIN cs THEN cs[k] ELSE <<>>

\* Grid.Clear: every bucket is cut to length 0, the keys stay.
ClearNothing(cs) == cs
Clear(cs) == [k \in DOMAIN cs |-> <<>>]

RECURSIVE InsertFrom(_, _, _)
InsertFrom(cs, ps, i) ==
    IF i \notin DOMAIN ps THEN cs
    ELSE LET key == CellKey(ps[i])
             new == IF key \in DOMAIN cs
                    THEN [cs EXCEPT ![key] = Append(@, i)]
                    ELSE cs @@ (key :> <<i>>)
         IN  InsertFrom(new, ps, i + 1)

\* Grid.Insert(particles)
GridInsert(cs, ps) == InsertFrom(Clear(cs), ps, 0)

\* The offsets of Nearby's two loops, dy outermost.
NearbyOffsetsForward == << <<0, 0>>, <<1, 0>>, <<0, 1>>, <<1, 1>> >>
NearbyOffsets ==
    << <<-1, -1>>, <<0, -1>>, <<1, -1>>,
       <<-1, 0>>,  <<0, 0>>,  <<1, 0>>,
       <<-1, 1>>,  <<0, 1>>,  <<1, 1>> >>

RECURSIVE NearbyFrom(_, _, _)
NearbyFrom(cs, key, n) ==
    IF n > Len(NearbyOffsets) THEN <<>>
    ELSE CellAt(cs, <<key[1] + NearbyOffsets[n][1], key[2] + NearbyOffsets[n][2]>>)
         \o NearbyFrom(cs, key, n + 1)

\* Grid.Nearby(p)
Nearby(cs, p) == NearbyFrom(cs, CellKey(p), 1)

(***************************************************************************)
(* SPH core                                                                *)
(***************************************************************************)
\* rl.Vector2Length(rl.Vector2Subtract(a.pos, b.pos))
Dist(a, b) == Vector2Length(a.px - b.px, a.py - b.py)

RECURSIVE DensitySum(_, _, _, _)
DensitySum(ps, i, ids, n) ==
    IF n > Len(ids) THEN 0
    ELSE LET r == Dist(ps[i], ps[ids[n]])
         IN  (IF r < hMilli THEN mass * poly6(r) ELSE 0) + DensitySum(ps, i, ids, n + 1)

\* pressure = gasConstant * (density - restDensity), in 1/1000.
PressureOf(density) == gasConstant * (density \div 100000 - restDensity * 1000)

\* One iteration of computeDensities' loop.
DensityOf(ps, cs, i) ==
    LET d == DensitySum(ps, i, Nearby(cs, ps[i]), 1)
    IN  [ps EXCEPT ![i].density = d, ![i].pressure = PressureOf(d)]

\* Whether index j is in the slice Nearby returns for p.
InNearby(cs, p, j) == \E n \in 1 .. Len(Nearby(cs, p)) : Nearby(cs, p)[n] = j

\* The guards of computeForces' inner loop: the candidates j of Nearby whose
\* contribution is evaluated for particle i.
Contributes(ps, i, j) ==
    /\ i # j
    /\ LET r == Dist(ps[i], ps[j]) IN ~(r <= 0 \/ r > hMilli)

\* pj.vel as the viscosity term of computeForces reads it.
VelReadSnapshot(ps, pre, j) == pre[j]
VelRead(ps, pre, j) == <<ps[j].vx, ps[j].vy>>

\* The acceleration (in 1/100 px/s^2) that neighbour j adds to particle i's.
Contribution(ps, pre, i, j) ==
    LET pi == ps[i]
        pj == ps[j]
        rx == pi.px - pj.px
        ry == pi.py - pj.py
        r == Vector2Length(rx, ry)
        rho == pj.density \div 1000                       \* pj.density in 1/10^5
        \* pressureTerm = -mass*(pi.pressure + pj.pressure)/(2*pj.density), in 1000s
        pressureTerm == Div(-mass * Div(pi.pressure + pj.pressure, 10), 2 * rho)
        \* pressureTerm/pj.density, in 100000s
        k == Div(pressureTerm * 1000, rho)
        grad == spikyGrad(rx, ry, r)
        vj == VelRead(ps, pre, j)
        dvx == vj[1] - pi.vx
        dvy == vj[2] - pi.vy
        \* visc/pj.density with visc = viscosity*viscLaplacian(r, h), in 1/10^6
        w == (viscosity * viscLaplacian(r) * 10) \div rho
    IN  <<Div(Div(grad[1], 10) * k, 10) + Div(Div(dvx, 100) * w, 100000),
          Div(Div(grad[2], 10) * k, 10) + Div(Div(dvy, 100) * w, 100000)>>

RECURSIVE AccSum(_, _, _, _, _)
AccSum(ps, pre, i, ids, n) ==
    IF n > Len(ids) THEN <<0, gravity * 100>>
    ELSE LET rest == AccSum(ps, pre, i, ids, n + 1)
             j == ids[n]
         IN  IF Contributes(ps, i, j)
             THEN LET c == Contribution(ps, pre, i, j)
                  IN  <<rest[1] + c[1], rest[2] + c[2]>>
             ELSE rest

\* One iteration of computeForces' loop: pi.vel += acc * timeStep.
ForcesOf(ps, cs, pre, i) ==
    LET acc == AccSum(ps, pre, i, Nearby(cs, ps[i]), 1)
    IN  [ps EXCEPT ![i].vx = @ + Div(acc[1] * timeStepNum, 200),
                   ![i].vy = @ + Div(acc[2] * timeStepNum, 200)]

\* p.pos + p.vel * timeStep
Moved(p) == <<p.px + Div(p.vx * timeStepNum, timeStepDen),
              p.py + Div(p.vy * timeStepNum, timeStepDen)>>

\* The wall collisions of integrate on one axis: <<position, velocity>>.
WallNoClamp(x, v, hi) ==
    IF x < margin * Milli \/ x > hi THEN <<x, Div(-v, 2)>> ELSE <<x, v>>
WallNoHalving(x, v, hi) ==
    IF x < margin * Milli THEN <<margin * Milli, -v>>
    ELSE IF x > hi THEN <<hi, -v>>
    ELSE <<x, v>>
Wall(x, v, hi) ==
    IF x < margin * Milli THEN <<margin * Milli, Div(-v, 2)>>
    ELSE IF x > hi THEN <<hi, Div(-v, 2)>>
    ELSE <<x, v>>

\* The speed clamp of integrate; the speed is compared in 1/10 px/s.
ClampNone(vx, vy) == <<vx, vy>>
Clamp(vx, vy) ==
    LET speed == Vector2Length(Div(vx, 100), Div(vy, 100))
    IN  IF speed > speedCap * 10
        THEN <<Div(vx * 100, speed) * 100, Div(vy * 100, speed) * 100>>
        ELSE <<vx, vy>>

\* p.vel scaled by drag
Drag(v) == Div(v * dragNum, 1000)

\* One iteration of integrate's loop.
IntegrateOf(ps, i) ==
    LET p == ps[i]
        m == Moved(p)
        wx == Wall(m[1], p.vx, (windowWidth - margin) * Milli)
        wy == Wall(m[2], p.vy, (windowHeight - margin) * Milli)
        c == Clamp(wx[2], wy[2])
    IN  [ps EXCEPT ![i].px = wx[1], ![i].py = wy[1],
                   ![i].vx = Drag(c[1]), ![i].vy = Drag(c[2])]

(***************************************************************************)
(* NewSPHSim                                                               *)
(***************************************************************************)
ZeroParticle == [px |-> 0, py |-> 0, vx |-> 0, vy |-> 0, density |-> 0, pressure |-> 0]

\* make([]Particle, n)
MakeParticles(n) == [i \in 0 .. n - 1 |-> ZeroParticle]

\* cols := int(math.Sqrt(particleCount))
Cols(n) == ISqrt(n)

\* The body of NewSPHSim's inner loop at (x, y).
PlaceAt(ps, x, y) ==
    LET i == y * Cols(Cardinality(DOMAIN ps)) + x
    IN  IF i >= Cardinality(DOMAIN ps) THEN ps
        ELSE [ps EXCEPT ![i].px = (originX + x * spacing) * Milli,
                        ![i].py = (originY + y * spacing) * Milli]

RECURSIVE NewLoop(_, _, _)
NewLoop(ps, x, y) ==
    LET cols == Cols(Cardinality(DOMAIN ps))
    IN  IF y >= cols THEN ps
        ELSE IF x >= cols THEN NewLoop(ps, 0, y + 1)
        ELSE NewLoop(PlaceAt(ps, x, y), x + 1, y)

\* The particles of NewSPHSim() for a particle count of n.
NewSPHSim(n) == NewLoop(MakeParticles(n), 0, 0)

NoLast == [i |-> -1, vx |-> 0, vy |-> 0, rawx |-> 0, rawy |-> 0]

(***************************************************************************)
(* SPHSim.Step, one loop iteration per action                              *)
(***************************************************************************)
\* The order of the passes in Step().
StepOrderForcesFirst == <<"insert", "forces", "density", "integrate">>
StepOrderDensityFirst == <<"density", "insert", "forces", "integrate">>
StepOrder == <<"insert", "density", "forces", "integrate">>

PhaseIndex(p) == CHOOSE n \in 1 .. Len(StepOrder) : StepOrder[n] = p

N == Cardinality(DOMAIN particles)

\* After the pass `p`: the next pass of this Step(), or the next Step().
Advance(p) ==
    IF PhaseIndex(p) < Len(StepOrder)
    THEN /\ pc' = StepOrder[PhaseIndex(p) + 1]
         /\ steps' = steps
    ELSE /\ pc' = StepOrder[1]
         /\ steps' = steps + 1

\* After iteration idx of the pass `p`.
NextIteration(p) ==
    IF idx + 1 < N
    THEN /\ idx' = idx + 1
         /\ pc' = pc
         /\ steps' = steps
    ELSE /\ idx' = 0
         /\ Advance(p)

Insert ==
    /\ pc = "insert"
    /\ steps < limit
    /\ cells' = GridInsert(cells, particles)
    /\ idx' = 0
    /\ Advance("insert")
    /\ UNCHANGED <<particles, row, limit, velPre, seen, last, State, frameCount>>

DensityStep ==
    /\ pc = "density"
    /\ steps < limit
    /\ particles' = DensityOf(particles, cells, idx)
    /\ NextIteration("density")
    /\ UNCHANGED <<cells, row, limit, velPre, seen, last, State, frameCount>>

ForceStep ==
    /\ pc = "forces"
    /\ steps < limit
    /\ LET pre == IF idx = 0 THEN [j \in DOMAIN particles |->
                                      <<particles[j].vx, particles[j].vy>>]
                  ELSE velPre
           js == {j \in DOMAIN particles :
                     /\ InNearby(cells, particles[idx], j)
                     /\ Contributes(particles, idx, j)}
       IN  /\ velPre' = pre
           /\ particles' = ForcesOf(particles, cells, pre, idx)
           /\ seen' = [(IF idx = 0 THEN [i \in DOMAIN particles |-> <<>>] ELSE seen)
                          EXCEPT ![idx] = [j \in js |-> VelRead(particles, pre, j)]]
    /\ NextIteration("forces")
    /\ UNCHANGED <<cells, row, limit, last, State, frameCount>>

IntegrateStep ==
    /\ pc = "integrate"
    /\ steps < limit
    /\ particles' = IntegrateOf(particles, idx)
    /\ last' = [i |-> idx, vx |-> particles[idx].vx, vy |-> particles[idx].vy,
                rawx |-> Moved(particles[idx])[1], rawy |-> Moved(particles[idx])[2]]
    /\ NextIteration("integrate")
    /\ UNCHANGED <<cells, row, limit, velPre, seen, State, frameCount>>

StepNext == Insert \/ DensityStep \/ ForceStep \/ IntegrateStep

NoWater == <<>>

Init ==
    /\ particles = NewSPHSim(MaxParticles)
    /\ cells = <<>>
    /\ pc = StepOrder[1]
    /\ idx = 0
    /\ row = 0
    /\ steps = 0
    /\ limit = MaxSteps
    /\ velPre = [j \in 0 .. MaxParticles - 1 |-> <<0, 0>>]
    /\ seen = [j \in 0 .. MaxParticles - 1 |-> <<>>]
    /\ last = NoLast
    /\ State = NoWater
    /\ frameCount = 0

Next == StepNext

Spec == Init /\ [][Next]_vars

(***************************************************************************)
(* NewSPHSim with the program's particleCount, one inner-loop iteration    *)
(* per action                                                              *)
(***************************************************************************)
InitNew ==
    /\ particles = MakeParticles(particleCount)
    /\ cells = <<>>
    /\ pc = "new"
    /\ idx = 0
    /\ row = 0
    /\ steps = 0
    /\ limit = 0
    /\ velPre = <<>>
    /\ seen = <<>>
    /\ last = NoLast
    /\ State = NoWater
    /\ frameCount = 0

NewPlace ==
    /\ pc = "new"
    /\ particles' = PlaceAt(particles, idx, row)
    /\ IF idx + 1 < Cols(N)
       THEN idx' = idx + 1 /\ row' = row /\ pc' = pc
       ELSE /\ idx' = 0
            /\ row' = row + 1
            /\ pc' = IF row + 1 < Cols(N) THEN pc ELSE "built"
    /\ UNCHANGED <<cells, steps, limit, velPre, seen, last, State, frameCount>>

NextNew == NewPlace

SpecNew == InitNew /\ [][NextNew]_vars

(***************************************************************************)
(* Grid.Insert and computeDensities on arbitrary positions, negative       *)
(* coordinates included; the grid still holds the buckets of an earlier    *)
(* build.                                                                  *)
(***************************************************************************)
GridXs == {-17000, -15999, 15000, 16000}
GridYs == {-16000, 15000, 16000}

At(x, y, vx, vy) ==
    [px |-> x, py |-> y, vx |-> vx, vy |-> vy, density |-> 0, pressure |-> 0]

InitGrid ==
    /\ particles \in [0 .. GridParticles - 1 -> {At(x, y, 0, 0) : x \in GridXs, y \in GridYs}]
    /\ cells = GridInsert(<<>>, MakeParticles(GridParticles))
    /\ pc = StepOrder[1]
    /\ idx = 0
    /\ row = 0
    /\ steps = 0
    /\ limit = 1
    /\ velPre = [j \in 0 .. GridParticles - 1 |-> <<0, 0>>]
    /\ seen = [j \in 0 .. GridParticles - 1 |-> <<>>]
    /\ last = NoLast
    /\ State = NoWater
    /\ frameCount = 0

NextGrid == Insert \/ DensityStep

SpecGrid == InitGrid /\ [][NextGrid]_vars

(***************************************************************************)
(* Step() from arbitrary particle states, in and out of the domain         *)
(***************************************************************************)
AnyXs == {0, 794500, 799000}
AnyYs == {0, 394900}
AnyVxs == {-900000, 900000}
AnyVys == {0, 900000}

InitAny ==
    /\ particles \in [0 .. AnyParticles - 1 ->
                         {At(x, y, vx, vy) : x \in AnyXs, y \in AnyYs,
                                             vx \in AnyVxs, vy \in AnyVys}]
    /\ cells = <<>>
    /\ pc = StepOrder[1]
    /\ idx = 0
    /\ row = 0
    /\ steps = 0
    /\ limit = MaxAnySteps
    /\ velPre = [j \in 0 .. AnyParticles - 1 |-> <<0, 0>>]
    /\ seen = [j \in 0 .. AnyParticles - 1 |-> <<>>]
    /\ last = NoLast
    /\ State = NoWater
    /\ frameCount = 0

SpecAny == InitAny /\ [][Next]_vars

(***************************************************************************)
(* gridSim: the cellular-automaton water simulator                         *)
(***************************************************************************)
\* 1.0 of volume or pressure in the fixed-point unit.
VolOne == 100000

\* Bounds: the grid (1920/20 x 1080/20 tiles in main), the first column of
\* the water generator (400/20 in main) and the frames of a run.
GridW == 14
GridH == 9
FlowStartX == 4
MaxFrames == 140

flowStartY == 0
generatorWidth == 5
obstacleThickness == 3

Droplet(volume) ==
    [volume |-> volume, isObstacle |-> FALSE, vx |-> 0, vy |-> 0, pressure |-> 0]

\* CreateGameState(w, h, ts)
CreateGameState(w, hh) == [y \in 0 .. hh - 1 |-> [x \in 0 .. w - 1 |-> Droplet(0)]]

Height(s) == Cardinality(DOMAIN s)
Width(s) == Cardinality(DOMAIN s[0])

\* CreateWaterGenerator(x, y, tileSize, state)
CreateWaterGenerator(s, x, y) ==
    [s EXCEPT ![y] = [xx \in DOMAIN s[y] |->
                         IF xx >= x /\ xx < x + generatorWidth
                         THEN Droplet(VolOne) ELSE s[y][xx]]]

SetObstacle(s, ys, xs, b) ==
    [y \in DOMAIN s |-> [x \in DOMAIN s[y] |->
        IF y \in ys /\ x \in xs THEN [s[y][x] EXCEPT !.isObstacle = b] ELSE s[y][x]]]

\* CreateHorizontalObstacle(x, y, size, state)
CreateHorizontalObstacle(s, x, y, size) ==
    SetObstacle(s, y .. y + obstacleThickness - 1, x .. x + size - 1, TRUE)

\* CreateVerticalObstacle(x, y, size, state)
CreateVerticalObstacle(s, x, y, size) ==
    SetObstacle(s, y .. y + size - 1, x .. x + obstacleThickness - 1, TRUE)

\* The grid that main() hands to its loop: the generator, the top border
\* with the generator's columns left open, and the other three borders.
\* (The three obstacles main places at fixed tiles of its 96 x 54 grid lie
\* outside a grid of GridW x GridH.)
MainSetup ==
    LET s0 == CreateGameState(GridW, GridH)
        s1 == CreateWaterGenerator(s0, FlowStartX, flowStartY)
        s2 == CreateHorizontalObstacle(s1, 0, 0, GridW)
        s3 == SetObstacle(s2, 0 .. 2, FlowStartX .. FlowStartX + generatorWidth - 1, FALSE)
        s4 == CreateHorizontalObstacle(s3, 0, GridH - 3, GridW)
        s5 == CreateVerticalObstacle(s4, 0, 0, GridH)
    IN  CreateVerticalObstacle(s5, GridW - 3, 0, GridH)

\* remainder(droplet, maxVolume)
remainder(d, maxVolume) == maxVolume - d.volume

\* fill(current, target, maxVolume, flowRate) with current = s[cy][cx] and
\* target = s[ty][tx].
fill(s, cy, cx, ty, tx, maxVolume, flowRate) ==
    LET room == remainder(s[ty][tx], maxVolume)
        transfer == IF room > flowRate THEN flowRate ELSE room
    IN  [s EXCEPT ![cy][cx].volume = @ - transfer, ![ty][tx].volume = @ + transfer]

canFlowDown(s, x, y) ==
    /\ y + 1 < Height(s)
    /\ s[y + 1][x].volume < VolOne
    /\ ~s[y + 1][x].isObstacle

\* One of the two cascade loops of tryHorizontalFlow, from `offset` on;
\* dir is 1 (right) or -1 (left).
RECURSIVE Cascade(_, _, _, _, _)
Cascade(s, x, y, dir, offset) ==
    LET tx == x + dir * offset
    IN  IF offset > 3 \/ tx >= Width(s) \/ tx < 0 THEN s
        ELSE IF s[y][tx].volume < s[y][x].volume /\ ~s[y][tx].isObstacle
        THEN Cascade(fill(s, y, x, y, tx, VolOne,
                          Div(s[y][x].volume - s[y][tx].volume, 10 * offset)),
                     x, y, dir, offset + 1)
        ELSE Cascade(s, x, y, dir, offset + 1)

tryHorizontalFlow(s, x, y) ==
    IF y + 1 < Height(s) /\ s[y + 1][x].volume > VolOne \div 2
    THEN Cascade(Cascade(s, x, y, 1, 1), x, y, -1, 1)
    ELSE s

tryDiagonalFlow(s, x, y) ==
    LET r == IF /\ x + 1 < Width(s) /\ y + 1 < Height(s)
                /\ s[y + 1][x + 1].volume < VolOne /\ ~s[y + 1][x + 1].isObstacle
             THEN fill(s, y, x, y + 1, x + 1, VolOne, VolOne \div 4)
             ELSE s
    IN  IF /\ x - 1 > 0 /\ y + 1 < Height(s)
           /\ r[y + 1][x - 1].volume < VolOne /\ ~r[y + 1][x - 1].isObstacle
        THEN fill(r, y, x, y + 1, x - 1, VolOne, VolOne \div 4)
        ELSE r

Min(a, b) == IF a < b THEN a ELSE b
Max(a, b) == IF a > b THEN a ELSE b

\* The directions of applyPressureFlow: up, down, left, right.
directions == << <<0, -1>>, <<0, 1>>, <<-1, 0>>, <<1, 0>> >>

RECURSIVE PressureFlowFrom(_, _, _, _)
PressureFlowFrom(s, x, y, n) ==
    IF n > Len(directions) THEN s
    ELSE
      LET nx == x + directions[n][1]
          ny == y + directions[n][2]
      IN  IF ny < 0 \/ ny >= Height(s) \/ nx < 0 \/ nx >= Width(s)
          THEN PressureFlowFrom(s, x, y, n + 1)
          ELSE IF s[ny][nx].isObstacle
          THEN PressureFlowFrom(s, x, y, n + 1)
          ELSE
            LET current == s[y][x]
                neighbor == s[ny][nx]
                pressureDiff == (current.pressure + current.volume)
                                - (neighbor.pressure + neighbor.volume)
                flow0 == Min(Div(pressureDiff * 5, 100), current.volume)
                flow == IF y - ny = 0 THEN Div(flow0 * 7, 10) ELSE flow0
            IN  IF pressureDiff > 0 /\ ~(pressureDiff >= VolOne \div 10000)
                THEN PressureFlowFrom(
                       [s EXCEPT
                          ![y][x].volume = Min(VolOne, Max(0, @ - flow)),
                          ![ny][nx].volume = Min(VolOne, Max(0, @ + flow)),
                          ![y][x].vx = @ + Div((nx - x) * flow, 10),
                          ![y][x].vy = @ + Div((ny - y) * flow, 10)],
                       x, y, n + 1)
                ELSE PressureFlowFrom(s, x, y, n + 1)

applyPressureFlow(s, x, y) ==
    IF s[y][x].isObstacle \/ s[y][x].volume <= 0 THEN s
    ELSE PressureFlowFrom(s, x, y, 1)

dampenPressure(s) ==
    [y \in DOMAIN s |-> [x \in DOMAIN s[y] |->
        [s[y][x] EXCEPT !.vx = Div(@ * 9, 10), !.vy = Div(@ * 9, 10),
                        !.pressure = Div(@ * 11, 10)]]]

\* Row y of computePressures' loop, from column x on.
RECURSIVE PressuresRow(_, _, _)
PressuresRow(s, y, x) ==
    IF x >= Width(s) THEN s
    ELSE LET p == IF s[y][x].isObstacle THEN 0
                  ELSE IF y = Height(s) - 1 \/ s[y + 1][x].isObstacle
                  THEN s[y][x].volume
                  ELSE s[y + 1][x].pressure + s[y][x].volume
         IN  PressuresRow([s EXCEPT ![y][x].pressure = p], y, x + 1)

\* computePressures' loop from row y up to row 0.
RECURSIVE PressuresFrom(_, _)
PressuresFrom(s, y) ==
    IF y < 0 \/ y >= Height(s) THEN s
    ELSE PressuresFrom(PressuresRow(s, y, 0), y - 1)

computePressures(s) == PressuresFrom(s, Height(s) - 1)

processWaterCell(s, x, y) ==
    LET s1 == IF y + 1 < Height(s) /\ ~s[y + 1][x].isObstacle
              THEN fill(s, y, x, y + 1, x, VolOne, VolOne \div 2)
              ELSE s
    IN  IF canFlowDown(s1, x, y) THEN s1
        ELSE LET s2 == tryHorizontalFlow(s1, x, y)
                 s3 == IF s2[y][x].volume > 0 THEN tryDiagonalFlow(s2, x, y) ELSE s2
             IN  applyPressureFlow(s3, x, y)

\* Row y of Game.Update's cell loop, from column x on; old is g.State.
RECURSIVE UpdateRow(_, _, _, _)
UpdateRow(old, new, y, x) ==
    IF x >= Width(new) THEN new
    ELSE IF old[y][x].isObstacle
    THEN UpdateRow(old, [new EXCEPT ![y][x] = old[y][x]], y, x + 1)
    ELSE IF old[y][x].volume > 0 /\ y + 1 < Height(old)
    THEN UpdateRow(old, processWaterCell(new, x, y), y, x + 1)
    ELSE UpdateRow(old, new, y, x + 1)

\* Game.Update's cell loop from row y up to row 0.
RECURSIVE UpdateFrom(_, _, _)
UpdateFrom(old, new, y) ==
    IF y < 0 \/ y >= Height(new) THEN new
    ELSE UpdateFrom(old, UpdateRow(old, new, y, 0), y - 1)

\* Game.Update()
Update(s) == UpdateFrom(s, dampenPressure(computePressures(s)), Height(s) - 1)

\* The refill of main's loop, every fifth frame.
Refill(s) ==
    [s EXCEPT ![flowStartY] = [x \in DOMAIN s[flowStartY] |->
        IF /\ x >= FlowStartX /\ x < FlowStartX + generatorWidth
           /\ ~s[flowStartY][x].isObstacle
           /\ s[flowStartY][x].volume < (VolOne * 7) \div 10
        THEN [s[flowStartY][x] EXCEPT !.volume = VolOne]
        ELSE s[flowStartY][x]]]

\* One iteration of main's loop.
Frame ==
    /\ pc = "water"
    /\ frameCount < MaxFrames
    /\ frameCount' = frameCount + 1
    /\ State' = Update(IF (frameCount + 1) % 5 = 0 THEN Refill(State) ELSE State)
    /\ UNCHANGED sphVars

InitWater ==
    /\ particles = <<>>
    /\ cells = <<>>
    /\ pc = "water"
    /\ idx = 0
    /\ row = 0
    /\ steps = 0
    /\ limit = 0
    /\ velPre = <<>>
    /\ seen = <<>>
    /\ last = NoLast
    /\ State = MainSetup
    /\ frameCount = 0

NextWater == Frame

SpecWater == InitWater /\ [][NextWater]_vars

(***************************************************************************)
(* Reference definitions used by the properties                            *)
(***************************************************************************)
\* Whether the distance between a and b is at most h (no square root taken).
WithinH(a, b) ==
    /\ Abs(a.px - b.px) <= hMilli
    /\ Abs(a.py - b.py) <= hMilli
    /\ (a.px - b.px) * (a.px - b.px) + (a.py - b.py) * (a.py - b.py) <= hMilli * hMilli

RECURSIVE AllPairsFrom(_, _, _)
AllPairsFrom(ps, i, j) ==
    IF j \notin DOMAIN ps THEN 0
    ELSE (IF WithinH(ps[i], ps[j]) THEN mass * poly6(Dist(ps[i], ps[j])) ELSE 0)
         + AllPairsFrom(ps, i, j + 1)

\* The density of particle i summed over the whole particle array.
AllPairsDensity(ps, i) == AllPairsFrom(ps, i, 0)

\* An upper estimate of the speed of p in 1/10 px/s: components rounded up.
CeilDeci(v) == (Abs(v) + 99) \div 100
SpeedWithinCap(p) ==
    CeilDeci(p.vx) * CeilDeci(p.vx) + CeilDeci(p.vy) * CeilDeci(p.vy)
        <= (speedCap * 10) * (speedCap * 10)

\* The state is between two Step() calls.
BetweenSteps == pc = StepOrder[1] /\ idx = 0

(***************************************************************************)
(* C1: after any number (>= 1) of Step() calls from NewSPHSim, every       *)
(* particle's speed is at most 1000.                                       *)
(***************************************************************************)
C1_SpeedCap ==
    (steps >= 1 /\ BetweenSteps) => \A i \in DOMAIN particles : SpeedWithinCap(particles[i])

\* A Step() has ended whose integrate met a particle faster than 1000 and
\* rescaled it.
C1_Witness ==
    /\ steps >= 1
    /\ last.i # -1
    /\ Vector2Length(Div(last.vx, 100), Div(last.vy, 100)) > speedCap * 10
    /\ last.rawx > margin * Milli /\ last.rawx < (windowWidth - margin) * Milli
    /\ last.rawy > margin * Milli /\ last.rawy < (windowHeight - margin) * Milli
    /\ SpeedWithinCap(particles[last.i])

(***************************************************************************)
(* C6: each time computeForces divides by a neighbour's density, that      *)
(* density is not zero.                                                    *)
(***************************************************************************)
C6_NoZeroDivisor ==
    pc = "forces" =>
        \A j \in DOMAIN particles :
            InNearby(cells, particles[idx], j) /\ Contributes(particles, idx, j)
                => particles[j].density # 0

\* The force pass is about to divide by the density of a neighbour of idx.
C6_Witness ==
    /\ pc = "forces"
    /\ \E j \in DOMAIN particles :
          /\ InNearby(cells, particles[idx], j)
          /\ Contributes(particles, idx, j)
          /\ particles[j].density > 0

(***************************************************************************)
(* C7: while the force pass runs, every density and pressure is the one    *)
(* the completed density pass of this Step() produced from the current     *)
(* positions, and the grid is the one built from those positions.          *)
(***************************************************************************)
C7_PhaseOrder ==
    pc = "forces" =>
        /\ cells = GridInsert(cells, particles)
        /\ \A j \in DOMAIN particles :
              /\ particles[j].density = AllPairsDensity(particles, j)
              /\ particles[j].pressure = PressureOf(particles[j].density)

\* The force pass of a later Step() is running, after positions have moved
\* and densities have changed from those of the first Step().
C7_Witness ==
    /\ pc = "forces"
    /\ steps >= 1
    /\ idx > 0
    /\ \E j \in DOMAIN particles :
          /\ particles[j].density # AllPairsDensity(NewSPHSim(MaxParticles), j)
          /\ particles[j].density > mass * poly6(0)

(***************************************************************************)
(* C8: in computeForces, particle i reads for a neighbour j < i the        *)
(* velocity j was given in this call, and for j > i the velocity j had     *)
(* before this call.                                                       *)
(***************************************************************************)
\* The particles whose iteration of the running (or just finished) force
\* pass is done.
ForcesDone(i) ==
    \/ pc = "forces" /\ i < idx
    \/ pc = "integrate" /\ idx = 0

C8_GaussSeidel ==
    \A i \in DOMAIN seen :
        ForcesDone(i) =>
            \A j \in DOMAIN seen[i] :
                seen[i][j] = IF j < i THEN <<particles[j].vx, particles[j].vy>>
                             ELSE velPre[j]

\* Particle i has read a lower neighbour's velocity that this call had
\* changed, and a higher neighbour's velocity.
C8_Witness ==
    \E i \in DOMAIN seen :
        /\ ForcesDone(i)
        /\ \E j \in DOMAIN seen[i] : j < i /\ seen[i][j] # velPre[j]
        /\ \E j \in DOMAIN seen[i] : j > i

(***************************************************************************)
(* C2: after Insert, two particles whose distance is at most h are never   *)
(* both missing from each other's Nearby, negative coordinates included.   *)
(***************************************************************************)
\* Insert has built the grid from the current positions.
GridBuilt == pc # "insert" /\ pc # "new"

C2_NoFalseNegative ==
    GridBuilt =>
        \A i, j \in DOMAIN particles :
            WithinH(particles[i], particles[j]) =>
                \/ InNearby(cells, particles[i], j)
                \/ InNearby(cells, particles[j], i)

\* Two particles exactly h apart on either side of x = 0, in different cells
\* of which one has a negative key, and each in the other's Nearby.
C2_Witness ==
    /\ GridBuilt
    /\ \E i, j \in DOMAIN particles :
          /\ particles[i].px = -17000 /\ particles[j].px = -15999
          /\ particles[i].py = particles[j].py
          /\ CellKey(particles[i])[1] = -1 /\ CellKey(particles[j])[1] = 0
          /\ WithinH(particles[i], particles[j])
          /\ InNearby(cells, particles[i], j)
          /\ InNearby(cells, particles[j], i)

(***************************************************************************)
(* C5: after computeDensities on a freshly built grid, the density of      *)
(* particle i is the sum of mass*poly6 over exactly the particles of the   *)
(* whole array within h of i, each once, i included; a particle with no    *)
(* other particle within h has density mass*poly6(0, h).                   *)
(***************************************************************************)
\* The particles whose iteration of the density pass is done.
DensityDone(i) ==
    \/ pc = "density" /\ i < idx
    \/ pc = "forces"

Isolated(ps, i) == \A j \in DOMAIN ps : j # i => ~WithinH(ps[i], ps[j])

C5_DensityAllPairs ==
    \A i \in DOMAIN particles :
        DensityDone(i) =>
            /\ particles[i].density = AllPairsDensity(particles, i)
            /\ Isolated(particles, i) => particles[i].density = mass * poly6(0)

\* The pass is complete with one particle isolated and two others within h
\* of each other in different cells, so that a density sums three terms
\* over more than one bucket.
C5_Witness ==
    /\ pc = "forces"
    /\ \E i, j, k \in DOMAIN particles :
          /\ i # j /\ j # k /\ i # k
          /\ Isolated(particles, i)
          /\ particles[i].density = mass * poly6(0)
          /\ WithinH(particles[j], particles[k])
          /\ CellKey(particles[j]) # CellKey(particles[k])
          /\ particles[j].density > mass * poly6(0)

(***************************************************************************)
(* C3: right-wall reflection.                                              *)
(***************************************************************************)
\* particles[last.i] still holds what its integrate iteration left.
JustIntegrated ==
    /\ last.i # -1
    /\ \/ pc = "integrate" /\ idx = last.i + 1
       \/ pc \in {"insert", "density"}

RightHit == JustIntegrated /\ last.rawx > (windowWidth - margin) * Milli

\* The y-velocity of last.i after the wall checks of its iteration.
LastVyAfterWalls ==
    IF last.rawy < margin * Milli \/ last.rawy > (windowHeight - margin) * Milli
    THEN Div(-last.vy, 2)
    ELSE last.vy

\* Whether the speed clamp fired in the iteration of last.i, given a right hit.
LastCapped ==
    Vector2Length(Div(Div(-last.vx, 2), 100), Div(LastVyAfterWalls, 100)) > speedCap * 10

\* C3 as stated: a particle that a Step() moved past 795 is at exactly 795
\* and its x-velocity is -1/2 of the x-velocity it was moved with.
C3_RightWallReflection ==
    RightHit =>
        /\ particles[last.i].px = (windowWidth - margin) * Milli
        /\ particles[last.i].vx = Div(-last.vx, 2)

\* C3 amended: the particle is at exactly 795; its x-velocity was multiplied
\* by -1/2 and then, in the same iteration, by the drag 0.995 (when the speed
\* clamp did not fire), or rescaled by the clamp and then by the drag (when
\* it fired: the sign is still reversed and the magnitude is at most the half).
C3_RightWallThenDrag ==
    RightHit =>
        /\ particles[last.i].px = (windowWidth - margin) * Milli
        /\ IF LastCapped
           THEN /\ last.vx >= 0 => particles[last.i].vx <= 0
                /\ last.vx <= 0 => particles[last.i].vx >= 0
                /\ Abs(particles[last.i].vx) <= Abs(Div(-last.vx, 2))
           ELSE particles[last.i].vx = Div(Div(-last.vx, 2) * dragNum, 1000)

\* A particle moving right was carried past 795 without the clamp firing
\* and now moves left.
C3_Witness ==
    /\ RightHit
    /\ ~LastCapped
    /\ last.vx > 0
    /\ particles[last.i].px = (windowWidth - margin) * Milli
    /\ particles[last.i].vx < 0

(***************************************************************************)
(* C9: after any Step(), from any state, every particle is inside          *)
(* [5, 795] x [5, 395]; so from the second Step() on, the cell key of      *)
(* every particle is non-negative and truncation equals floor.             *)
(***************************************************************************)
InDomain(p) ==
    /\ margin * Milli <= p.px /\ p.px <= (windowWidth - margin) * Milli
    /\ margin * Milli <= p.py /\ p.py <= (windowHeight - margin) * Milli

C4_InitialLayout ==
    pc = "built" =>
        /\ \A i \in DOMAIN particles :
              /\ particles[i].px = (originX + spacing * (i % Cols(N))) * Milli
              /\ particles[i].py = (originY + spacing * (i \div Cols(N))) * Milli
              /\ particles[i].vx = 0 /\ particles[i].vy = 0
        /\ \A i, j \in DOMAIN particles :
              i # j => <<particles[i].px, particles[i].py>>
                           # <<particles[j].px, particles[j].py>>

(***************************************************************************)
(* C10: through any sequence of frames (refill, then Game.Update), every   *)
(* cell's volume stays within [0.0, 1.0]; no fill() drives a source cell   *)
(* below 0.                                                                *)
(***************************************************************************)
C10_VolumeInRange ==
    pc = "water" =>
        \A y \in DOMAIN State : \A x \in DOMAIN State[y] :
            0 <= State[y][x].volume /\ State[y][x].volume <= VolOne

====
